---- MODULE Spec2Model ----
(***************************************************************************)
(* Label repositories of src/repositories/label.rs: the durable backend    *)
(* (LabelRepositoryForDb, SQL statements against the labels table) and the *)
(* in-memory backend (LabelRepositoryForMemory, a HashMap<i32, Label>      *)
(* behind an RwLock), driven through the LabelRepository trait.            *)
(*                                                                         *)
(* Spec      one repository instance (durable or in-memory, chosen at      *)
(*           construction), calls made one at a time.                      *)
(* SpecBoth  both instances side by side, every call applied to both.      *)
(* SpecConc  concurrent durable update/delete calls, one SQL statement per *)
(*           step.                                                         *)
(* SpecConcCreate  the same with concurrent durable creates among them.    *)
(* SpecMemConc   concurrent in-memory calls under the RwLock;              *)
(* SpecMemConcFair adds fair scheduling of the tasks.                      *)
(* SpecHandlers  the label request handlers applied to repository results. *)
(***************************************************************************)
EXTENDS Integers, Sequences, FiniteSets

VARIABLES
    backend,   \* which repository the application was built with
    labels,    \* durable: the rows of table labels, a set of Label
    seq,       \* durable: next value of the id sequence of table labels
    store,     \* in-memory: the HashMap, a function from key to Label
    dbLast,    \* the last call on the durable repository and its result
    memLast,   \* the last call on the in-memory repository and its result
    calls,     \* the in-flight calls of the concurrent tasks, one per task
    labels0,   \* SpecConc: the rows of table labels when the calls started
    lock,      \* in-memory: the holders of the RwLock around the HashMap
    http       \* SpecHandlers: the latest handler exchanges, newest first

vars ==
    <<backend, labels, seq, store, dbLast, memLast, calls, labels0, lock, http>>

\* Largest id a call names, and the number of rows a store is grown to.
MaxId == 3
\* Number of concurrent tasks of SpecConc.
NumTasks == 2

Ids == 1..MaxId
Names == {"a", "b"}

\* Option<T>: None is <<>>, Some(x) is <<x>>.
None == <<>>
Some(x) == <<x>>
\* Option::unwrap_or
UnwrapOr(opt, default) == IF opt = None THEN default ELSE opt[1]

\* struct Label { id, name }
Label(id, name) == [id |-> id, name |-> name]
\* struct CreateLabel { name }
CreateLabel == [name : Names]
\* struct UpdateLabel { name: Option<String> }
UpdateLabel == [name : {None} \cup {Some(n) : n \in Names}]

\* anyhow::Result<T> as the trait returns it.
Ok(v) == [kind |-> "Ok", val |-> v]
\* RepositoryError::NotFound(id)
NotFound(id) == [kind |-> "NotFound", id |-> id]
\* RepositoryError::Duplicate(id)
Duplicate(id) == [kind |-> "Duplicate", id |-> id]
\* sqlx::Error::RowNotFound passed on by `?` without map_err
RowNotFound == [kind |-> "RowNotFound"]
Unit == "()"

IsOk(res) == res.kind = "Ok"

(***************************************************************************)
(* Durable backend: the SQL statements.                                    *)
(***************************************************************************)

\* select id, name from labels where name = $1, fetch_optional: Some(a
\* matching row) or None. Which one of several matching rows is not fixed.
SelectByName(rows, name) ==
    LET m == {r \in rows : r.name = name}
    IN  IF m = {} THEN {None} ELSE {Some(r) : r \in m}

\* sqlx::Error::Database passed on by `?` without map_err
DatabaseError == [kind |-> "Database"]

\* Mutant of InsertReturning: the INSERT against a labels table whose name
\* column is declared UNIQUE.
InsertReturningUniqueName(rows, sq, name) ==
    IF \E r \in rows : r.name = name
      THEN [rows |-> rows, seq |-> sq + 1, res |-> DatabaseError]
      ELSE [rows |-> rows \cup {Label(sq, name)}, seq |-> sq + 1,
            res |-> Ok(Label(sq, name))]

\* INSERT INTO labels (name) VALUES ($1) RETURNING *, fetch_one: the id is
\* the next value of the sequence.
InsertReturning(rows, sq, name) ==
    [rows |-> rows \cup {Label(sq, name)}, seq |-> sq + 1,
     res |-> Ok(Label(sq, name))]

\* Mutant of DbFind: fetch_one's RowNotFound passed on without map_err.
DbFindUnmapped(rows, id) ==
    LET m == {r \in rows : r.id = id}
    IN  IF m = {} THEN {RowNotFound} ELSE {Ok(r) : r \in m}

\* SELECT labels.* FROM labels WHERE labels.id = $1, fetch_one, with
\* RowNotFound mapped to NotFound(id).
DbFind(rows, id) ==
    LET m == {r \in rows : r.id = id}
    IN  IF m = {} THEN {NotFound(id)} ELSE {Ok(r) : r \in m}

\* Mutant of UpdateReturning: the UPDATE without its WHERE clause.
UpdateReturningNoWhere(rows, id, name) ==
    LET m == {r \in rows : r.id = id}
    IN  [rows |-> {Label(r.id, name) : r \in rows},
         res |-> IF m = {} THEN RowNotFound ELSE Ok(Label(id, name))]

\* UPDATE labels SET name = $1 WHERE id = $2 RETURNING *, fetch_one: no
\* updated row is sqlx's RowNotFound, which `?` passes on as it is.
UpdateReturning(rows, id, name) ==
    LET m == {r \in rows : r.id = id}
    IN  [rows |-> (rows \ m) \cup {Label(r.id, name) : r \in m},
         res |-> IF m = {} THEN RowNotFound ELSE Ok(Label(id, name))]

\* DELETE FROM labels WHERE id = $1, execute: deleting no row is no error.
DeleteWhere(rows, id) ==
    [rows |-> {r \in rows : r.id # id}, res |-> Ok(Unit)]

(***************************************************************************)
(* Durable backend: the trait methods, each the set of its outcomes        *)
(* [rows, seq, res] when it runs alone.                                    *)
(***************************************************************************)

\* Mutant of DbCreate: the probe's row returned as the created label
\* (`return Ok(label)`) instead of Duplicate.
DbCreateReturnsExisting(rows, sq, payload) ==
    UNION { IF optional_label # None
              THEN {[rows |-> rows, seq |-> sq, res |-> Ok(optional_label[1])]}
              ELSE {InsertReturning(rows, sq, payload.name)}
            : optional_label \in SelectByName(rows, payload.name) }

DbCreate(rows, sq, payload) ==
    UNION { IF optional_label # None
              THEN {[rows |-> rows, seq |-> sq,
                     res |-> Duplicate(optional_label[1].id)]}
              ELSE {InsertReturning(rows, sq, payload.name)}
            : optional_label \in SelectByName(rows, payload.name) }

DbUpdate(rows, sq, id, payload) ==
    { IF ~IsOk(old_label)
        THEN [rows |-> rows, seq |-> sq, res |-> old_label]
        ELSE LET u == UpdateReturning(rows, id,
                                      UnwrapOr(payload.name, old_label.val.name))
             IN  [rows |-> u.rows, seq |-> sq, res |-> u.res]
      : old_label \in DbFind(rows, id) }

DbDelete(rows, sq, id) ==
    LET d == DeleteWhere(rows, id)
    IN  {[rows |-> d.rows, seq |-> sq, res |-> d.res]}

\* The rows in ascending order of id.
RECURSIVE OrderById(_)
OrderById(rows) ==
    IF rows = {} THEN <<>>
    ELSE LET first == CHOOSE r \in rows : \A q \in rows : r.id <= q.id
         IN  <<first>> \o OrderById(rows \ {first})

\* SELECT id, name FROM labels ORDER BY id ASC, fetch_all
DbAll(rows, sq) ==
    {[rows |-> rows, seq |-> sq, res |-> Ok(OrderById(rows))]}

\* The given rows, each once, in every order.
RECURSIVE InAnyOrder(_)
InAnyOrder(rows) ==
    IF rows = {} THEN {<<>>}
    ELSE UNION {{<<r>> \o t : t \in InAnyOrder(rows \ {r})} : r \in rows}

\* SELECT labels.* FROM labels WHERE labels.user_id = $1, fetch_all: no
\* statement of the repository writes user_id, so the rows that match are
\* any of the rows, in the order the store returns them.
DbFindByUser(rows, sq, user_id) ==
    {[rows |-> rows, seq |-> sq, res |-> Ok(s)]
       : s \in UNION {InAnyOrder(m) : m \in SUBSET rows}}

DbFindOutcomes(rows, sq, id) ==
    {[rows |-> rows, seq |-> sq, res |-> f] : f \in DbFind(rows, id)}

(***************************************************************************)
(* In-memory backend: the trait methods on the HashMap, each the set of    *)
(* its outcomes [store, res].                                              *)
(***************************************************************************)

\* Mutant of Insert: the entry put under the key before the given one.
InsertKeyBefore(map, key, value) ==
    [k \in DOMAIN map \cup {key - 1} |-> IF k = key - 1 THEN value ELSE map[k]]

\* HashMap::insert
Insert(map, key, value) ==
    [k \in DOMAIN map \cup {key} |-> IF k = key THEN value ELSE map[k]]

\* HashMap::remove
Remove(map, key) == [k \in DOMAIN map \ {key} |-> map[k]]

\* HashMap::len
MapLen(map) == Cardinality(DOMAIN map)

\* The values of the entries with the given keys, each once, in every order.
RECURSIVE ValuesOf(_, _)
ValuesOf(map, keys) ==
    IF keys = {} THEN {<<>>}
    ELSE UNION {{<<map[k]>> \o t : t \in ValuesOf(map, keys \ {k})} : k \in keys}

\* HashMap::values().collect(): every entry once, in an order the hasher
\* decides.
Values(map) == ValuesOf(map, DOMAIN map)

\* Mutant of MemCreate: entry(id).or_insert(label), which keeps the label
\* already stored under the key.
MemCreateKeepsExisting(map, payload) ==
    LET id == MapLen(map) + 1
        label == Label(id, payload.name)
    IN  {[store |-> IF id \in DOMAIN map THEN map ELSE Insert(map, id, label),
          res |-> Ok(label)]}

\* Mutant of MemCreate: the id is store.len(), without the + 1.
MemCreateIdIsLen(map, payload) ==
    LET id == MapLen(map)
        label == Label(id, payload.name)
    IN  {[store |-> Insert(map, id, label), res |-> Ok(label)]}

MemCreate(map, payload) ==
    LET id == MapLen(map) + 1
        label == Label(id, payload.name)
    IN  {[store |-> Insert(map, id, label), res |-> Ok(label)]}

MemFind(map, id) ==
    IF id \in DOMAIN map
      THEN {[store |-> map, res |-> Ok(map[id])]}
      ELSE {[store |-> map, res |-> NotFound(id)]}

\* Mutant of MemFindByUser: the filter on the owner left in, on the one
\* integer a Label has.
MemFindByUserFiltered(map, user_id) ==
    {[store |-> map, res |-> Ok(s)]
       : s \in ValuesOf(map, {k \in DOMAIN map : map[k].id = user_id})}

MemFindByUser(map, user_id) ==
    {[store |-> map, res |-> Ok(s)] : s \in Values(map)}

MemAll(map) == {[store |-> map, res |-> Ok(s)] : s \in Values(map)}

MemUpdate(map, id, payload) ==
    IF id \notin DOMAIN map
      THEN {[store |-> map, res |-> NotFound(id)]}
      ELSE LET updated == IF payload.name # None
                            THEN [map EXCEPT ![id].name = payload.name[1]]
                            ELSE map
           IN  {[store |-> updated, res |-> Ok(updated[id])]}

MemDelete(map, id) ==
    IF id \notin DOMAIN map
      THEN {[store |-> map, res |-> NotFound(id)]}
      ELSE {[store |-> Remove(map, id), res |-> Ok(Unit)]}

\* RwLock<LabelDatas> as Arc::default() leaves it: no writer (0), no reader.
Unlocked == [writer |-> 0, readers |-> {}]

(***************************************************************************)
(* Calls made one at a time through the LabelRepository trait.             *)
(***************************************************************************)

UsesDb == backend \in {"Db", "Both"}
UsesMemory == backend \in {"Memory", "Both"}

\* The record of one call: the method, its arguments, the store before the
\* call, the result, and the label the call just before returned when that
\* call was a successful create. removed is the id the call just before
\* deleted, when it was a successful delete; fresh is Some(the number of
\* successful creates so far) until a delete succeeds, and None from then on.
CallRecord(op, id, payload, pre, res, before) ==
    [op |-> op, id |-> id, payload |-> payload, pre |-> pre, res |-> res,
     created |-> IF before.op = "create" /\ IsOk(before.res)
                   THEN Some(before.res.val) ELSE None,
     removed |-> IF before.op = "delete" /\ IsOk(before.res)
                   THEN Some(before.id) ELSE None,
     fresh |-> IF before.fresh = None \/ (op = "delete" /\ IsOk(res))
                 THEN None
                 ELSE IF op = "create" /\ IsOk(res)
                        THEN Some(before.fresh[1] + 1)
                        ELSE before.fresh]

NoCall(pre) ==
    [op |-> "new", id |-> 0, payload |-> [name |-> None], pre |-> pre,
     res |-> Ok(Unit), created |-> None, removed |-> None, fresh |-> Some(0)]

\* LabelRepositoryForDb::new / LabelRepositoryForMemory::new on an empty
\* labels table whose id sequence starts at 1.
InitStores ==
    /\ labels = {}
    /\ seq = 1
    /\ store = <<>>
    /\ dbLast = NoCall({})
    /\ memLast = NoCall(<<>>)
    /\ calls = <<>>
    /\ labels0 = {}
    /\ lock = Unlocked
    /\ http = <<>>

Init == backend \in {"Db", "Memory"} /\ InitStores

InitBoth == backend = "Both" /\ InitStores

\* One call on the durable repository, when the application uses it.
DbCall(op, id, payload, outcomes) ==
    IF UsesDb
      THEN \E o \in outcomes :
             /\ labels' = o.rows
             /\ seq' = o.seq
             /\ dbLast' = CallRecord(op, id, payload, labels, o.res, dbLast)
      ELSE UNCHANGED <<labels, seq, dbLast>>

\* One call on the in-memory repository, when the application uses it.
MemCall(op, id, payload, outcomes) ==
    IF UsesMemory
      THEN \E o \in outcomes :
             /\ store' = o.store
             /\ memLast' = CallRecord(op, id, payload, store, o.res, memLast)
      ELSE UNCHANGED <<store, memLast>>

Create(payload) ==
    /\ UsesDb => seq <= MaxId
    /\ UsesMemory => MapLen(store) < MaxId
    /\ DbCall("create", 0, payload, DbCreate(labels, seq, payload))
    /\ MemCall("create", 0, payload, MemCreate(store, payload))
    /\ UNCHANGED <<backend, calls, labels0, lock, http>>

Find(id) ==
    /\ DbCall("find", id, [name |-> None], DbFindOutcomes(labels, seq, id))
    /\ MemCall("find", id, [name |-> None], MemFind(store, id))
    /\ UNCHANGED <<backend, calls, labels0, lock, http>>

FindByUser(user_id) ==
    /\ DbCall("find_by_user", user_id, [name |-> None],
              DbFindByUser(labels, seq, user_id))
    /\ MemCall("find_by_user", user_id, [name |-> None],
               MemFindByUser(store, user_id))
    /\ UNCHANGED <<backend, calls, labels0, lock, http>>

All ==
    /\ DbCall("all", 0, [name |-> None], DbAll(labels, seq))
    /\ MemCall("all", 0, [name |-> None], MemAll(store))
    /\ UNCHANGED <<backend, calls, labels0, lock, http>>

Update(id, payload) ==
    /\ DbCall("update", id, payload, DbUpdate(labels, seq, id, payload))
    /\ MemCall("update", id, payload, MemUpdate(store, id, payload))
    /\ UNCHANGED <<backend, calls, labels0, lock, http>>

Delete(id) ==
    /\ DbCall("delete", id, [name |-> None], DbDelete(labels, seq, id))
    /\ MemCall("delete", id, [name |-> None], MemDelete(store, id))
    /\ UNCHANGED <<backend, calls, labels0, lock, http>>

Next ==
    \/ \E payload \in CreateLabel : Create(payload)
    \/ \E id \in Ids : Find(id)
    \/ \E user_id \in Ids : FindByUser(user_id)
    \/ All
    \/ \E id \in Ids, payload \in UpdateLabel : Update(id, payload)
    \/ \E id \in Ids : Delete(id)

Spec == Init /\ [][Next]_vars

SpecBoth == InitBoth /\ [][Next]_vars

(***************************************************************************)
(* Concurrent durable calls: every task runs one update or delete on the   *)
(* shared pool, and another task's statement may run at each await between *)
(* the statements of a call.                                               *)
(***************************************************************************)

Tasks == 1..NumTasks

\* The calls a task may make, at their first statement.
TaskCalls ==
    [op : {"update"}, id : Ids, payload : UpdateLabel, pc : {"find"},
     old : {None}, res : {None}]
      \cup
    [op : {"delete"}, id : Ids, payload : {[name |-> None]}, pc : {"delete"},
     old : {None}, res : {None}]

\* A labels table that creates made one at a time have filled, and one of
\* the given calls for each task.
InitTasks(callSet) ==
    /\ backend = "Db"
    /\ labels0 \in {{Label(1, "a")}, {Label(1, "a"), Label(2, "b")}}
    /\ labels = labels0
    /\ seq = Cardinality(labels0) + 1
    /\ store = <<>>
    /\ dbLast = NoCall({})
    /\ memLast = NoCall(<<>>)
    /\ calls \in [Tasks -> callSet]
    /\ lock = Unlocked
    /\ http = <<>>

InitConc == InitTasks(TaskCalls)

\* update, first statement: self.find(id).await?
UpdateFind(t) ==
    /\ calls[t].pc = "find"
    /\ \E old_label \in DbFind(labels, calls[t].id) :
         calls' = [calls EXCEPT ![t] =
                     IF IsOk(old_label)
                       THEN [@ EXCEPT !.pc = "write", !.old = Some(old_label.val)]
                       ELSE [@ EXCEPT !.pc = "done", !.res = Some(old_label)]]
    /\ UNCHANGED <<backend, labels, seq, store, dbLast, memLast, labels0, lock, http>>

\* update, second statement: the UPDATE with the coalesced name.
UpdateWrite(t) ==
    /\ calls[t].pc = "write"
    /\ LET u == UpdateReturning(labels, calls[t].id,
                                UnwrapOr(calls[t].payload.name,
                                         calls[t].old[1].name))
       IN  /\ labels' = u.rows
           /\ calls' = [calls EXCEPT ![t].pc = "done", ![t].res = Some(u.res)]
    /\ UNCHANGED <<backend, seq, store, dbLast, memLast, labels0, lock, http>>

\* delete, its one statement.
DeleteExec(t) ==
    /\ calls[t].pc = "delete"
    /\ LET d == DeleteWhere(labels, calls[t].id)
       IN  /\ labels' = d.rows
           /\ calls' = [calls EXCEPT ![t].pc = "done", ![t].res = Some(d.res)]
    /\ UNCHANGED <<backend, seq, store, dbLast, memLast, labels0, lock, http>>

NextConc ==
    \E t \in Tasks : UpdateFind(t) \/ UpdateWrite(t) \/ DeleteExec(t)

SpecConc == InitConc /\ [][NextConc]_vars

(***************************************************************************)
(* Concurrent durable calls with create among them.                        *)
(***************************************************************************)

\* The create calls a task may make, at their first statement.
CreateCalls ==
    [op : {"create"}, id : {0}, payload : CreateLabel, pc : {"probe"},
     old : {None}, res : {None}]

InitConcCreate == InitTasks(TaskCalls \cup CreateCalls)

\* create, first statement: the probe for a row with the name.
CreateProbe(t) ==
    /\ calls[t].pc = "probe"
    /\ \E optional_label \in SelectByName(labels, calls[t].payload.name) :
         calls' = [calls EXCEPT ![t] =
                     IF optional_label # None
                       THEN [@ EXCEPT !.pc = "done",
                                      !.res = Some(Duplicate(optional_label[1].id))]
                       ELSE [@ EXCEPT !.pc = "insert"]]
    /\ UNCHANGED <<backend, labels, seq, store, dbLast, memLast, labels0, lock, http>>

\* create, second statement: the INSERT.
CreateInsert(t) ==
    /\ calls[t].pc = "insert"
    /\ LET i == InsertReturning(labels, seq, calls[t].payload.name)
       IN  /\ labels' = i.rows
           /\ seq' = i.seq
           /\ calls' = [calls EXCEPT ![t].pc = "done", ![t].res = Some(i.res)]
    /\ UNCHANGED <<backend, store, dbLast, memLast, labels0, lock, http>>

NextConcCreate ==
    \/ NextConc
    \/ \E t \in Tasks : CreateProbe(t) \/ CreateInsert(t)

SpecConcCreate == InitConcCreate /\ [][NextConcCreate]_vars

\* Two tasks that create the same name and whose probes both found no row.
BothPastProbe(t, u) ==
    /\ t # u
    /\ calls[t].op = "create" /\ calls[u].op = "create"
    /\ calls[t].payload.name = calls[u].payload.name
    /\ calls[t].pc = "insert" \/ (calls[t].pc = "done" /\ calls[t].res[1].kind # "Duplicate")
    /\ calls[u].pc = "insert" \/ (calls[u].pc = "done" /\ calls[u].res[1].kind # "Duplicate")

\* C16: when the probes of two concurrent durable creates of one name both
\* run before either insert, both calls return a label, with different ids
\* and that name, and (no other call changing rows) both rows are stored.
C16_ConcurrentCreatesBothSucceed ==
    \A t, u \in DOMAIN calls :
        (BothPastProbe(t, u) /\ calls[t].pc = "done" /\ calls[u].pc = "done")
          => /\ IsOk(calls[t].res[1]) /\ IsOk(calls[u].res[1])
             /\ calls[t].res[1].val.id # calls[u].res[1].val.id
             /\ calls[t].res[1].val.name = calls[t].payload.name
             /\ calls[u].res[1].val.name = calls[t].payload.name
             /\ (\A v \in DOMAIN calls : calls[v].op = "create")
                  => {calls[t].res[1].val, calls[u].res[1].val} \subseteq labels

\* C16's case: two creates of one name have both returned a label and two
\* rows with that name are stored.
C16_Witness ==
    \E t, u \in DOMAIN calls :
        /\ BothPastProbe(t, u)
        /\ calls[t].pc = "done" /\ calls[u].pc = "done"
        /\ IsOk(calls[t].res[1]) /\ IsOk(calls[u].res[1])
        /\ \E r, q \in labels : r # q /\ r.name = q.name
                                  /\ r = calls[t].res[1].val
                                  /\ q = calls[u].res[1].val

\* The outcomes of a task's call when it runs alone on the given rows.
RunAlone(rows, call) ==
    IF call.op = "update"
      THEN DbUpdate(rows, seq, call.id, call.payload)
      ELSE DbDelete(rows, seq, call.id)

\* The tables that running the calls of the given tasks one at a time, in
\* any order, can leave.
RECURSIVE SerialRows(_, _)
SerialRows(rows, tasks) ==
    IF tasks = {} THEN {rows}
    ELSE UNION { UNION {SerialRows(o.rows, tasks \ {t})
                          : o \in RunAlone(rows, calls[t])}
                 : t \in tasks }

AllDone == \A t \in Tasks : calls[t].pc = "done"

\* C10: for any interleaving of concurrent durable update and delete calls,
\* the final table is the one some one-at-a-time order of the calls leaves
\* (so an update without a name changes no stored name).
C10_UpdateSerializable ==
    AllDone => labels \in SerialRows(labels0, Tasks)

(***************************************************************************)
(* Concurrent in-memory calls: every task runs one call on the shared      *)
(* repository; each method takes the RwLock, works on the map and drops    *)
(* the guard when it returns.                                              *)
(***************************************************************************)

\* The ids the concurrent in-memory calls name.
TaskIds == {1, 2}

\* The in-memory calls a task may make, before they take the lock.
MemTaskCalls ==
    [op : {"create"}, id : {0}, payload : CreateLabel, pc : {"start"},
     old : {None}, res : {None}]
      \cup
    [op : {"find", "delete"}, id : TaskIds, payload : {[name |-> None]},
     pc : {"start"}, old : {None}, res : {None}]
      \cup
    [op : {"find_by_user", "all"}, id : {1}, payload : {[name |-> None]},
     pc : {"start"}, old : {None}, res : {None}]
      \cup
    [op : {"update"}, id : TaskIds, payload : UpdateLabel, pc : {"start"},
     old : {None}, res : {None}]

\* A fresh in-memory repository and the calls of the tasks.
InitMemConc ==
    /\ backend = "Memory"
    /\ labels = {}
    /\ seq = 1
    /\ store = <<>>
    /\ dbLast = NoCall({})
    /\ memLast = NoCall(<<>>)
    /\ calls \in [Tasks -> MemTaskCalls]
    /\ labels0 = {}
    /\ lock = Unlocked
    /\ http = <<>>

\* Mutant of LockMode: create takes the map through read_store_ref.
LockModeCreateReads(op) ==
    IF op \in {"update", "delete"} THEN "write" ELSE "read"

\* The guard a method takes: write_store_ref in create, update and delete,
\* read_store_ref in find, find_by_user and all.
LockMode(op) ==
    IF op \in {"create", "update", "delete"} THEN "write" ELSE "read"

\* Mutant of CanWrite: a writer let in beside readers.
CanWriteBesideReaders(l) == l.writer = 0

\* RwLock::write returns once no writer and no reader holds the lock.
CanWrite(l) == l.writer = 0 /\ l.readers = {}

\* RwLock::read returns once no writer holds the lock.
CanRead(l) == l.writer = 0

\* Mutant of Release: the guard leaked (mem::forget), the lock kept.
ReleaseForgotten(l, t) == l

\* Dropping the guard of task t.
Release(l, t) ==
    [writer |-> IF l.writer = t THEN 0 ELSE l.writer, readers |-> l.readers \ {t}]

\* write_store_ref() / read_store_ref(): the task waits until the lock lets
\* it in.
MemAcquire(t) ==
    /\ calls[t].pc = "start"
    /\ IF LockMode(calls[t].op) = "write"
         THEN CanWrite(lock) /\ lock' = [lock EXCEPT !.writer = t]
         ELSE CanRead(lock) /\ lock' = [lock EXCEPT !.readers = @ \cup {t}]
    /\ calls' = [calls EXCEPT ![t].pc =
                   IF calls[t].op = "create" THEN "len" ELSE "body"]
    /\ UNCHANGED <<backend, labels, seq, store, dbLast, memLast, labels0, http>>

\* create: let id = (store.len() + 1) as i32
MemCreateLen(t) ==
    /\ calls[t].pc = "len"
    /\ calls' = [calls EXCEPT ![t].pc = "insert",
                              ![t].old = Some(MapLen(store) + 1)]
    /\ UNCHANGED <<backend, labels, seq, store, dbLast, memLast, labels0,
                   lock, http>>

\* create: store.insert(id, label.clone()); Ok(label)
MemCreateInsert(t) ==
    /\ calls[t].pc = "insert"
    /\ LET id == calls[t].old[1]
           label == Label(id, calls[t].payload.name)
       IN  /\ store' = Insert(store, id, label)
           /\ calls' = [calls EXCEPT ![t].pc = "unlock",
                                     ![t].res = Some(Ok(label))]
    /\ UNCHANGED <<backend, labels, seq, dbLast, memLast, labels0, lock, http>>

\* The outcomes of find, find_by_user, all, update or delete on the map.
MemOutcomes(map, call) ==
    CASE call.op = "find" -> MemFind(map, call.id)
      [] call.op = "find_by_user" -> MemFindByUser(map, call.id)
      [] call.op = "all" -> MemAll(map)
      [] call.op = "update" -> MemUpdate(map, call.id, call.payload)
      [] call.op = "delete" -> MemDelete(map, call.id)

\* The body of every method but create, under its guard.
MemBody(t) ==
    /\ calls[t].pc = "body"
    /\ \E o \in MemOutcomes(store, calls[t]) :
         /\ store' = o.store
         /\ calls' = [calls EXCEPT ![t].pc = "unlock", ![t].res = Some(o.res)]
    /\ UNCHANGED <<backend, labels, seq, dbLast, memLast, labels0, lock, http>>

\* The method returns and its guard is dropped.
MemRelease(t) ==
    /\ calls[t].pc = "unlock"
    /\ lock' = Release(lock, t)
    /\ calls' = [calls EXCEPT ![t].pc = "done"]
    /\ UNCHANGED <<backend, labels, seq, store, dbLast, memLast, labels0, http>>

MemStep(t) ==
    \/ MemAcquire(t)
    \/ MemCreateLen(t)
    \/ MemCreateInsert(t)
    \/ MemBody(t)
    \/ MemRelease(t)

NextMemConc == \E t \in Tasks : MemStep(t)

SpecMemConc == InitMemConc /\ [][NextMemConc]_vars

\* Every task is scheduled again and again: a step of its call that stays
\* possible is taken.
SpecMemConcFair == SpecMemConc /\ \A t \in Tasks : WF_vars(MemStep(t))

\* The tasks that hold a guard, by the kind of their method.
InsideStore(ops) ==
    {t \in DOMAIN calls :
        calls[t].op \in ops /\ calls[t].pc \in {"len", "insert", "body", "unlock"}}

Mutations == {"create", "update", "delete"}
Reads == {"find", "find_by_user", "all"}

\* C15: at most one mutation (create, update, delete) is inside the store,
\* and no read (find, find_by_user, all) is inside while a mutation is.
C15_MutationsExclusive ==
    /\ Cardinality(InsideStore(Mutations)) <= 1
    /\ InsideStore(Mutations) # {} => InsideStore(Reads) = {}

\* C15's case: two reads are inside the store together while no mutation is.
C15_Witness ==
    /\ backend = "Memory"
    /\ Cardinality(InsideStore(Reads)) >= 2
    /\ InsideStore(Mutations) = {}

\* C17: under fair scheduling every in-memory call takes the lock, returns
\* and drops it: eventually all calls are done and the lock is free.
C17_NoCallBlocksForever ==
    <>(AllDone /\ lock = Unlocked)

\* C17's case: an update and a delete, which exclude each other, have both
\* returned and the lock is free.
C17_Witness ==
    /\ backend = "Memory"
    /\ AllDone
    /\ lock = Unlocked
    /\ \E t, u \in DOMAIN calls : calls[t].op = "update" /\ calls[u].op = "delete"

\* C19: when all the concurrent in-memory calls are creates, the ids they
\* return are pairwise distinct and are exactly 1..n, and every label
\* returned is stored afterwards.
C19_ConcurrentCreatesDistinctIds ==
    (backend = "Memory" /\ AllDone /\ \A t \in Tasks : calls[t].op = "create")
      => /\ \A t \in Tasks : IsOk(calls[t].res[1])
         /\ \A t, u \in Tasks :
              t # u => calls[t].res[1].val.id # calls[u].res[1].val.id
         /\ {calls[t].res[1].val.id : t \in Tasks} = 1..NumTasks
         /\ \A t \in Tasks :
              /\ calls[t].res[1].val.id \in DOMAIN store
              /\ store[calls[t].res[1].val.id] = calls[t].res[1].val

\* C19's case: concurrent creates of different names have all returned.
C19_Witness ==
    /\ backend = "Memory"
    /\ AllDone
    /\ \A t \in DOMAIN calls : calls[t].op = "create"
    /\ \E t, u \in DOMAIN calls : calls[t].payload.name # calls[u].payload.name

(***************************************************************************)
(* The label request handlers: each maps the result of its repository call *)
(* to a response.                                                          *)
(***************************************************************************)

StatusOk == 200
StatusCreated == 201
StatusNoContent == 204
StatusNotFound == 404
StatusInternalServerError == 500

\* RepositoryError::Unexpected(message)
Unexpected(message) == [kind |-> "Unexpected", message |-> message]

Handlers ==
    {"create_label", "find_label", "find_by_user", "all_label",
     "update_label", "delete_label"}

\* A response with a status code, or the handler's panic.
Status(code) == [kind |-> "status", code |-> code]
Panic == [kind |-> "panic"]

\* The response of a handler to the result of its repository call.
Respond(handler, res) ==
    CASE handler = "create_label" ->
           IF IsOk(res) THEN Status(StatusCreated) ELSE Status(StatusNotFound)
      [] handler = "find_label" ->
           IF IsOk(res) THEN Status(StatusOk) ELSE Status(StatusNotFound)
      [] handler = "find_by_user" ->
           IF IsOk(res) THEN Status(StatusOk) ELSE Status(StatusNotFound)
      [] handler = "all_label" ->
           IF IsOk(res) THEN Status(StatusOk) ELSE Panic
      [] handler = "update_label" ->
           IF IsOk(res) THEN Status(StatusCreated) ELSE Status(StatusNotFound)
      [] handler = "delete_label" ->
           IF IsOk(res) THEN Status(StatusNoContent)
                        ELSE Status(StatusInternalServerError)

\* The results a repository behind the trait may hand to a handler.
RepoResults ==
    {Ok("value"), Unexpected("message")}
      \cup {NotFound(id) : id \in Ids} \cup {Duplicate(id) : id \in Ids}

InitHandlers == backend = "Db" /\ InitStores

\* One request: the handler's repository call returns res and the handler
\* answers; the two latest exchanges are kept.
Handle(handler, res) ==
    /\ http' = <<[handler |-> handler, res |-> res,
                  response |-> Respond(handler, res)]>>
                 \o SubSeq(http, 1, IF Len(http) > 0 THEN 1 ELSE 0)
    /\ UNCHANGED <<backend, labels, seq, store, dbLast, memLast, calls,
                   labels0, lock>>

NextHandlers == \E handler \in Handlers, res \in RepoResults : Handle(handler, res)

SpecHandlers == InitHandlers /\ [][NextHandlers]_vars

\* The handlers C12 names.
ErrorMappingHandlers ==
    {"create_label", "find_label", "update_label", "delete_label"}

ClientFailure(response) ==
    response.kind = "status" /\ response.code \in 400..499

\* C12: each of create_label, find_label, update_label and delete_label
\* answers a repository NotFound and a repository Duplicate with client
\* failure statuses that differ from each other, and an Unexpected with the
\* server failure status.
C12_HandlersDistinguishErrors ==
    \A i, j \in DOMAIN http :
        http[i].handler \in ErrorMappingHandlers =>
          /\ http[i].res.kind = "Unexpected"
               => http[i].response = Status(StatusInternalServerError)
          /\ http[i].res.kind \in {"NotFound", "Duplicate"}
               => ClientFailure(http[i].response)
          /\ (/\ http[j].handler = http[i].handler
              /\ http[i].res.kind = "NotFound"
              /\ http[j].res.kind = "Duplicate")
               => http[i].response # http[j].response

\* The outcome kinds of the error taxonomy, and success.
TaxonomyKinds == {"Ok", "NotFound", "Duplicate", "Unexpected"}

\* C11: every durable operation succeeds or fails with one of NotFound,
\* Duplicate, Unexpected; no raw driver error (such as the row-not-found of
\* update's UPDATE after a concurrent delete) is returned.
C11_OnlyTaxonomyErrors ==
    \A t \in DOMAIN calls :
        calls[t].res # None => calls[t].res[1].kind \in TaxonomyKinds

(***************************************************************************)
(* Properties of calls made one at a time.                                 *)
(***************************************************************************)

\* The ids stored before the last call of each backend.
DbPreIds == {r.id : r \in dbLast.pre}
MemPreIds == DOMAIN memLast.pre

\* C1: in both backends, delete(id) on an id that is not stored returns
\* NotFound(id) and leaves the store unchanged (so a second delete of a
\* created id yields NotFound).
C1_DeleteMissingIsNotFound ==
    /\ (UsesDb /\ dbLast.op = "delete" /\ dbLast.id \notin DbPreIds)
         => dbLast.res = NotFound(dbLast.id) /\ labels = dbLast.pre
    /\ (UsesMemory /\ memLast.op = "delete" /\ memLast.id \notin MemPreIds)
         => memLast.res = NotFound(memLast.id) /\ store = memLast.pre

\* C2: in both backends, find(id) and update(id, cmd) on an id that is not
\* stored return NotFound(id) and leave the store unchanged.
C2_FindUpdateMissingIsNotFound ==
    /\ (UsesDb /\ dbLast.op \in {"find", "update"} /\ dbLast.id \notin DbPreIds)
         => dbLast.res = NotFound(dbLast.id) /\ labels = dbLast.pre
    /\ (UsesMemory /\ memLast.op \in {"find", "update"}
          /\ memLast.id \notin MemPreIds)
         => memLast.res = NotFound(memLast.id) /\ store = memLast.pre

\* C2's case: an update that names a new name for an id that is not stored,
\* while other labels are.
C2_Witness ==
    /\ UsesDb
    /\ dbLast.op = "update"
    /\ dbLast.payload.name # None
    /\ dbLast.id \notin DbPreIds
    /\ dbLast.pre # {}

\* C3: in the durable backend no two stored labels have the same name.
C3_DurableNamesUnique ==
    UsesDb => \A r, q \in labels : r.name = q.name => r = q

\* C4: in the durable backend, create with the name of a stored label fails
\* with Duplicate(id of a stored label with that name) and inserts no row.
C4_DurableCreateDuplicate ==
    (UsesDb /\ dbLast.op = "create"
       /\ \E r \in dbLast.pre : r.name = dbLast.payload.name)
      => /\ dbLast.res.kind = "Duplicate"
         /\ \E r \in dbLast.pre :
              r.name = dbLast.payload.name /\ r.id = dbLast.res.id
         /\ labels = dbLast.pre

\* C4's case: a create rejected as a duplicate while two labels are stored.
C4_Witness ==
    /\ UsesDb
    /\ dbLast.op = "create"
    /\ dbLast.res.kind = "Duplicate"
    /\ Cardinality(dbLast.pre) >= 2

\* C5: in the in-memory backend, create with the name of a stored label is
\* rejected with Duplicate(id of that label) and stores nothing.
C5_MemoryCreateDuplicate ==
    (UsesMemory /\ memLast.op = "create"
       /\ \E k \in MemPreIds : memLast.pre[k].name = memLast.payload.name)
      => /\ memLast.res.kind = "Duplicate"
         /\ \E k \in MemPreIds :
              /\ memLast.pre[k].name = memLast.payload.name
              /\ memLast.pre[k].id = memLast.res.id
         /\ store = memLast.pre

\* C6: with every call applied to both backends, each call returns the same
\* outcome kind in the in-memory backend as in the durable one.
C6_SameOutcomeKind ==
    (backend = "Both" /\ dbLast.op # "new")
      => memLast.res.kind = dbLast.res.kind

\* C7: in both backends a successful create returns a label with the
\* command's name, and a find of the returned id right after it returns a
\* label equal to the one create returned.
C7_CreateThenFind ==
    /\ (UsesDb /\ dbLast.op = "create" /\ IsOk(dbLast.res))
         => dbLast.res.val.name = dbLast.payload.name
    /\ (UsesDb /\ dbLast.op = "find" /\ dbLast.created # None)
         => (dbLast.id = dbLast.created[1].id
               => dbLast.res = Ok(dbLast.created[1]))
    /\ (UsesMemory /\ memLast.op = "create" /\ IsOk(memLast.res))
         => memLast.res.val.name = memLast.payload.name
    /\ (UsesMemory /\ memLast.op = "find" /\ memLast.created # None)
         => (memLast.id = memLast.created[1].id
               => memLast.res = Ok(memLast.created[1]))

\* C7's case: a find of the id a create just returned, where that create
\* followed a delete and so was given an id that had been in use.
C7_Witness ==
    /\ UsesMemory
    /\ memLast.op = "find"
    /\ memLast.created # None
    /\ memLast.id = memLast.created[1].id
    /\ MapLen(store) = 2
    /\ memLast.id = 2
    /\ 1 \notin DOMAIN store

\* Whether sequence s holds every label of set S exactly once, by strictly
\* ascending id.
AscendingAll(s, S) ==
    /\ Len(s) = Cardinality(S)
    /\ {s[i] : i \in 1..Len(s)} = S
    /\ \A i \in 1..(Len(s) - 1) : s[i].id < s[i + 1].id

\* C8: in both backends all() returns every stored label exactly once, by
\* strictly ascending id.
C8_AllAscending ==
    /\ (UsesDb /\ dbLast.op = "all")
         => IsOk(dbLast.res) /\ AscendingAll(dbLast.res.val, dbLast.pre)
    /\ (UsesMemory /\ memLast.op = "all")
         => /\ IsOk(memLast.res)
            /\ AscendingAll(memLast.res.val,
                            {memLast.pre[k] : k \in MemPreIds})

\* C9: in both backends update(id, cmd) on a stored id returns the label as
\* stored after the call; its name is cmd.name when given and the stored
\* name otherwise, its id is unchanged, and no other label changes.
C9_UpdateStored ==
    /\ (UsesDb /\ dbLast.op = "update" /\ dbLast.id \in DbPreIds)
         => LET old == CHOOSE r \in dbLast.pre : r.id = dbLast.id
            IN  /\ IsOk(dbLast.res)
                /\ dbLast.res.val \in labels
                /\ dbLast.res.val.id = dbLast.id
                /\ dbLast.payload.name = None => dbLast.res.val.name = old.name
                /\ dbLast.payload.name # None
                     => dbLast.res.val.name = dbLast.payload.name[1]
                /\ labels \ {dbLast.res.val} = dbLast.pre \ {old}
    /\ (UsesMemory /\ memLast.op = "update" /\ memLast.id \in MemPreIds)
         => LET old == memLast.pre[memLast.id]
            IN  /\ IsOk(memLast.res)
                /\ DOMAIN store = MemPreIds
                /\ memLast.res.val = store[memLast.id]
                /\ memLast.res.val.id = old.id
                /\ memLast.payload.name = None => memLast.res.val.name = old.name
                /\ memLast.payload.name # None
                     => memLast.res.val.name = memLast.payload.name[1]
                /\ \A k \in MemPreIds \ {memLast.id} : store[k] = memLast.pre[k]

\* C9's case: an update without a name on a stored label whose name an
\* earlier update had changed, with another label stored beside it.
C9_Witness ==
    /\ UsesDb
    /\ dbLast.op = "update"
    /\ dbLast.payload.name = None
    /\ IsOk(dbLast.res)
    /\ dbLast.res.val = Label(1, "b")
    /\ Label(2, "b") \in labels

\* C13: on an in-memory repository where no label has been deleted, the
\* k-th successful create returns Label {id: k, name: the command's name}
\* and all() then returns exactly the labels 1..k, each once; an all() right
\* after a successful delete(id) returns no label with that id, and all()
\* on an empty repository returns the empty sequence.
C13_MemoryCrudScenario ==
    /\ (UsesMemory /\ memLast.fresh # None /\ memLast.op = "create")
         => memLast.res = Ok(Label(memLast.fresh[1], memLast.payload.name))
    /\ (UsesMemory /\ memLast.fresh # None /\ memLast.op = "all")
         => /\ IsOk(memLast.res)
            /\ Len(memLast.res.val) = memLast.fresh[1]
            /\ {memLast.res.val[i].id : i \in 1..Len(memLast.res.val)}
                 = 1..memLast.fresh[1]
            /\ \A i \in 1..Len(memLast.res.val) :
                 memLast.res.val[i] = memLast.pre[memLast.res.val[i].id]
    /\ (UsesMemory /\ memLast.op = "all" /\ memLast.removed # None)
         => /\ IsOk(memLast.res)
            /\ \A i \in 1..Len(memLast.res.val) :
                 memLast.res.val[i].id # memLast.removed[1]
    /\ (UsesMemory /\ memLast.op = "all" /\ memLast.pre = <<>>)
         => memLast.res = Ok(<<>>)

\* C13's case: the second create on a repository where nothing was deleted.
C13_Witness ==
    /\ UsesMemory
    /\ memLast.op = "create"
    /\ memLast.fresh = Some(2)
    /\ memLast.res = Ok(Label(2, "b"))

\* C14: in the in-memory backend a successful create is given an id that no
\* stored label has: it replaces no label and the number of stored labels
\* grows by exactly one.
C14_MemoryCreateIdUnused ==
    (UsesMemory /\ memLast.op = "create" /\ IsOk(memLast.res))
      => /\ memLast.res.val.id \notin MemPreIds
         /\ \A k \in MemPreIds : k \in DOMAIN store /\ store[k] = memLast.pre[k]
         /\ MapLen(store) = MapLen(memLast.pre) + 1

\* Whether sequence s holds every label of set S exactly once.
SameLabels(s, S) ==
    Len(s) = Cardinality(S) /\ {s[i] : i \in 1..Len(s)} = S

\* C18: in the in-memory backend find_by_user(owner_id) succeeds for every
\* owner_id and returns exactly the stored labels, each once, whatever
\* owner_id is; on an empty store it returns the empty sequence.
C18_MemoryFindByUserReturnsAll ==
    (UsesMemory /\ memLast.op = "find_by_user")
      => /\ IsOk(memLast.res)
         /\ SameLabels(memLast.res.val, {memLast.pre[k] : k \in MemPreIds})
         /\ memLast.pre = <<>> => memLast.res = Ok(<<>>)
         /\ store = memLast.pre

\* C18's case: find_by_user for an owner id that is no label's id, with two
\* labels stored.
C18_Witness ==
    /\ UsesMemory
    /\ memLast.op = "find_by_user"
    /\ MapLen(memLast.pre) = 2
    /\ memLast.id \notin MemPreIds

\* C20: in the in-memory backend every map entry's key is the id of the
\* label stored under it, and a successful find(id) returns a label whose
\* id is id.
C20_MemoryKeyIsLabelId ==
    UsesMemory =>
      /\ \A k \in DOMAIN store : store[k].id = k
      /\ (memLast.op = "find" /\ IsOk(memLast.res))
           => memLast.res.val.id = memLast.id

\* C20's case: a successful find of label 2 after label 1 was deleted.
C20_Witness ==
    /\ UsesMemory
    /\ memLast.op = "find"
    /\ IsOk(memLast.res)
    /\ memLast.id = 2
    /\ DOMAIN store = {2}

====
